---- MODULE Spec2Model ----
(***************************************************************************)
(* Model of the PHPStan editor extension (src/src/extension.ts): the       *)
(* activation sequence, the analysis triggers, runAnalysis, handle and     *)
(* processOutput, and the process-wide diagnostic collection they mutate.  *)
(*                                                                         *)
(* Strings that the code inspects character by character (file paths, the  *)
(* dockerVolumePath setting, violation messages) are sequences of          *)
(* one-character strings.  Each analysis pass is one trigger step (the     *)
(* synchronous part of runAnalysis up to the awaited subprocess) and one   *)
(* completion step (everything after the await, executed in one callback). *)
(***************************************************************************)
EXTENDS Integers, Sequences, FiniteSets, Bags, TLC

VARIABLES
    pc,                   \* position of activate()
    dockerVolumePath,     \* utils.config.get('dockerVolumePath')
    diagnosticCollection, \* store: key path -> sequence of diagnostics
    running,              \* bag of the runAnalysis calls awaiting their subprocess
    started,              \* number of runAnalysis calls started so far
    last,                 \* history: the pass that completed most recently
    flaggedByLatest       \* history: keys flagged by the latest report covering them
                          \* (a failed pass is not held against the store)

vars == <<pc, dockerVolumePath, diagnosticCollection, running, started, last,
          flaggedByLatest>>

-----------------------------------------------------------------------------
(* Bounds of the model *)

MaxPasses == 3

(* Program constants *)

PACKAGE_TITLE == "Phpstan"

-----------------------------------------------------------------------------
(* Input domains *)

ws == <<"w">>

NoFile == <<>>

SavedFiles == { <<"w", "a">>, <<"w", "b">> }

Passes == [filePath : SavedFiles \cup {NoFile}, check : BOOLEAN]

LanguageIds == { "php", "plaintext" }

DockerVolumePaths == { <<>>, <<"d">> }

\* Paths as the tool reports them, in the order the report lists them.
ReportPaths == << <<"d", "a">>, <<"w", "d">> >>

V0 == [message |-> <<"m">>, line |-> 0, identifier |-> "i"]
V3 == [message |-> <<"m", "n">>, line |-> 3, identifier |-> "j"]

\* A file entry: without messages field, with no message, with two messages,
\* and with a messages value that is no array.
FileDatas ==
    { [hasMessages |-> FALSE, iterable |-> FALSE, messages |-> <<>>],
      [hasMessages |-> TRUE,  iterable |-> TRUE,  messages |-> <<>>],
      [hasMessages |-> TRUE,  iterable |-> TRUE,  messages |-> <<V0, V3>>],
      [hasMessages |-> TRUE,  iterable |-> FALSE, messages |-> <<>>] }

\* The files mappings: any selection of the reported paths, each with its entry.
FilesMappings ==
    { fs \in UNION { [1..n -> [rank : 1..Len(ReportPaths), data : FileDatas]] :
                        n \in 0..Len(ReportPaths) } :
        \A i, j \in 1..Len(fs) : i < j => fs[i].rank < fs[j].rank }

Entry(e) == [path |-> ReportPaths[e.rank], data |-> e.data]

NoText == [text |-> "empty", hasFiles |-> FALSE, files |-> <<>>]
Garbage == [text |-> "garbage", hasFiles |-> FALSE, files |-> <<>>]
DefaultOutput == [text |-> "json", hasFiles |-> FALSE, files |-> <<>>]

Reports ==
    { [text |-> "json", hasFiles |-> TRUE,
       files |-> [i \in 1..Len(fs) |-> Entry(fs[i])]] : fs \in FilesMappings }

Stdouts == { NoText, Garbage, DefaultOutput } \cup Reports

ErrorStdouts ==
    { NoText,
      [text |-> "json", hasFiles |-> TRUE, files |-> <<>>],
      [text |-> "json", hasFiles |-> TRUE,
       files |-> << [path |-> <<"d", "a">>,
                     data |-> [hasMessages |-> TRUE, iterable |-> TRUE,
                               messages |-> <<V0, V3>>]] >>] }

ExecResults ==
    { [kind |-> "ok", stdout |-> s, stderr |-> FALSE] : s \in Stdouts }
    \cup { [kind |-> "execaError", stdout |-> s, stderr |-> e] :
             s \in ErrorStdouts, e \in BOOLEAN }
    \cup { [kind |-> "otherError", stdout |-> NoText, stderr |-> FALSE] }

-----------------------------------------------------------------------------
(* String helpers, as the JavaScript runtime computes them *)

Max(a, b) == IF a >= b THEN a ELSE b

\* String.prototype.indexOf: zero-based index of the first occurrence, or -1.
IndexOf(s, pat) ==
    LET hits == { i \in 0..(Len(s) - Len(pat)) :
                    SubSeq(s, i + 1, i + Len(pat)) = pat }
    IN  IF hits = {} THEN -1
        ELSE CHOOSE i \in hits : \A j \in hits : i <= j

\* String.prototype.replace with a string pattern: only the first occurrence
\* is replaced, wherever it stands; the empty pattern matches at index 0.
StringReplace(s, pat, rep) ==
    LET i == IndexOf(s, pat)
    IN  IF i = -1 THEN s
        ELSE SubSeq(s, 1, i) \o rep \o SubSeq(s, i + Len(pat) + 1, Len(s))

\* A JavaScript string is truthy unless it is empty.
Truthy(out) == out.text # "empty"

\* JSON.parse throws on the empty string and on text that is not JSON.
JSONParseThrows(out) == out.text # "json"

-----------------------------------------------------------------------------
(* The diagnostic collection *)

EmptyStore == << >>

Has(store, key) == key \in DOMAIN store

Delete(store, key) == [k \in DOMAIN store \ {key} |-> store[k]]

-----------------------------------------------------------------------------
(* processOutput *)

Diagnostic(msg) ==
    [line     |-> Max(0, msg.line - 1),
     startCol |-> 0,
     endCol   |-> Len(msg.message),
     message  |-> msg.message,
     severity |-> "Error",
     source   |-> PACKAGE_TITLE,
     code     |-> msg.identifier]

\* The guard of the messages loop: only an object with a messages field is read.
ReadsMessages(fileData) == fileData.hasMessages

\* Iterating a messages value that is not iterable throws a TypeError inside
\* the promise executor.
MappingThrows(fileData) == ReadsMessages(fileData) /\ ~fileData.iterable

FileDiagnostics(fileData) ==
    IF ReadsMessages(fileData)
    THEN [i \in 1..Len(fileData.messages) |-> Diagnostic(fileData.messages[i])]
    ELSE << >>

PublishAlways(fileDiagnostics) == TRUE

ShouldPublish(fileDiagnostics) == Len(fileDiagnostics) > 0

StoreKey(filePath, dvp) == StringReplace(filePath, dvp, ws)

ProcessOutput(store, output, dvp) ==
    LET files == output.files
        idx   == { i \in 1..Len(files) : ShouldPublish(FileDiagnostics(files[i].data)) }
        keys  == { StoreKey(files[i].path, dvp) : i \in idx }
        \* diagnosticsByFile keeps, for a key set twice, the value set last
        at(k) == CHOOSE i \in idx :
                    /\ StoreKey(files[i].path, dvp) = k
                    /\ \A j \in idx : StoreKey(files[j].path, dvp) = k => j <= i
    IN  IF ~output.hasFiles
        THEN [store |-> store, status |-> "rejected"]
        ELSE IF Len(files) = 0
        THEN [store |-> store, status |-> "resolved"]
        ELSE IF \E i \in 1..Len(files) : MappingThrows(files[i].data)
        THEN [store |-> store, status |-> "rejected"]
        ELSE [store  |-> [k \in DOMAIN store \cup keys |->
                             IF k \in keys
                             THEN FileDiagnostics(files[at(k)].data)
                             ELSE store[k]],
              status |-> "resolved"]

-----------------------------------------------------------------------------
(* handle *)

HandleWithoutClear(store, output, dvp) == ProcessOutput(store, output, dvp)

Handle(store, output, dvp) == ProcessOutput(EmptyStore, output, dvp)

-----------------------------------------------------------------------------
(* runAnalysis *)

AbortsOnToolFailureOnly(result) ==
    result.kind = "execaError" /\ result.stderr /\ ~Truthy(result.stdout)

\* The two early returns of the catch block.
Aborts(result) ==
    \/ result.kind = "execaError" /\ result.stderr /\ ~Truthy(result.stdout)
    \/ result.kind = "otherError"

\* The text handed to JSON.parse.
Output(result) ==
    IF result.kind = "ok" THEN result.stdout
    ELSE IF result.kind = "execaError" /\ Truthy(result.stdout) THEN result.stdout
    ELSE DefaultOutput

DispatchAlwaysHandle(store, filePath, output, dvp) == Handle(store, output, dvp)

Dispatch(store, filePath, output, dvp) ==
    IF filePath # NoFile
    THEN ProcessOutput(store, output, dvp)
    ELSE Handle(store, output, dvp)

RunAnalysis(store, check, filePath, result, dvp) ==
    LET output == Output(result)
        store1 == IF Len(output.files) = 0 /\ check
                  THEN Delete(store, filePath)
                  ELSE store
    IN  IF Aborts(result)
        THEN [store |-> store, status |-> "aborted"]
        ELSE IF JSONParseThrows(output) \/ ~output.hasFiles
        THEN [store |-> store, status |-> "rejected"]
        ELSE Dispatch(store1, filePath, output, dvp)

-----------------------------------------------------------------------------
(* History helpers: what a report says, read off the report itself *)

\* The reported paths that carry at least one well-formed violation.
Flagged(files) ==
    { files[i].path : i \in { j \in 1..Len(files) :
          /\ files[j].data.hasMessages
          /\ files[j].data.iterable
          /\ Len(files[j].data.messages) > 0 } }

\* The reported paths listed without any violation.
Quiet(files) ==
    { files[i].path : i \in { j \in 1..Len(files) :
          \/ ~files[j].data.hasMessages
          \/ files[j].data.iterable /\ Len(files[j].data.messages) = 0 } }

Malformed(files) ==
    \E i \in 1..Len(files) : files[i].data.hasMessages /\ ~files[i].data.iterable

NoLast ==
    [kind |-> "none", filePath |-> NoFile,
     status |-> "none", failure |-> "none", hasReport |-> FALSE,
     flagged |-> {}, quiet |-> FALSE, malformed |-> FALSE, removed |-> FALSE]

-----------------------------------------------------------------------------
(* The state machine *)

Init ==
    /\ pc = "start"
    /\ dockerVolumePath \in DockerVolumePaths
    /\ diagnosticCollection = EmptyStore
    /\ running = EmptyBag
    /\ started = 0
    /\ last = NoLast
    /\ flaggedByLatest = {}

RegisteredDuringActivation == pc \in {"activating", "registered"}

\* The triggers exist once activate() has run past its awaited first pass.
Registered == pc = "registered"

\* The synchronous head of runAnalysis: check is read, the subprocess starts.
StartPass(filePath) ==
    /\ started < MaxPasses
    /\ started' = started + 1
    /\ running' = running (+) SetToBag({
                    [filePath |-> filePath,
                     check    |-> filePath # NoFile /\ Has(diagnosticCollection, filePath)]})

\* activate() without a workspace folder returns at once.
ActivateNoWorkspace ==
    /\ pc = "start"
    /\ pc' = "inactive"
    /\ UNCHANGED <<dockerVolumePath, diagnosticCollection, running, started, last,
                   flaggedByLatest>>

\* activate() with a workspace folder: the collection is created, the
\* configuration is read and the first whole-project pass is awaited.
Activate ==
    /\ pc = "start"
    /\ pc' = "activating"
    /\ diagnosticCollection' = EmptyStore
    /\ StartPass(NoFile)
    /\ UNCHANGED <<dockerVolumePath, last, flaggedByLatest>>

\* The phpstan.analyze command.
AnalyzeCommand ==
    /\ Registered
    /\ StartPass(NoFile)
    /\ UNCHANGED <<pc, dockerVolumePath, diagnosticCollection, last, flaggedByLatest>>

\* The file-system watcher on watchGlob.
ConfigFileChanged ==
    /\ Registered
    /\ StartPass(NoFile)
    /\ UNCHANGED <<pc, dockerVolumePath, diagnosticCollection, last, flaggedByLatest>>

\* onDidSaveTextDocument.
SaveTextDocument(fileName, languageId) ==
    /\ Registered
    /\ IF languageId = "php"
       THEN StartPass(fileName)
       ELSE UNCHANGED <<running, started>>
    /\ UNCHANGED <<pc, dockerVolumePath, diagnosticCollection, last, flaggedByLatest>>

\* onDidChangeConfiguration affecting the package: setConfig() re-reads.
ConfigurationChanged(dvp) ==
    /\ Registered
    /\ dockerVolumePath' = dvp
    /\ UNCHANGED <<pc, diagnosticCollection, running, started, last, flaggedByLatest>>

\* The subprocess of pass p has ended: the rest of runAnalysis runs.
Complete(p, result) ==
    LET r   == RunAnalysis(diagnosticCollection, p.check, p.filePath, result,
                           dockerVolumePath)
        out == Output(result)
        rep == ~Aborts(result) /\ ~JSONParseThrows(out) /\ out.hasFiles
        keys == { StoreKey(q, dockerVolumePath) : q \in Flagged(out.files) }
    IN  /\ BagIn(p, running)
        /\ diagnosticCollection' = r.store
        /\ running' = running (-) SetToBag({p})
        /\ pc' = IF pc = "activating"
                 THEN IF r.status = "rejected" THEN "failed" ELSE "registered"
                 ELSE pc
        /\ last' = [kind      |-> IF p.filePath = NoFile THEN "project" ELSE "single",
                    filePath  |-> p.filePath,
                    status    |-> r.status,
                    failure   |-> IF result.kind = "otherError" THEN "invocation"
                                  ELSE IF result.kind = "execaError" /\ result.stderr
                                          /\ result.stdout = NoText
                                  THEN "stderrOnly"
                                  ELSE "none",
                    hasReport |-> rep,
                    flagged   |-> IF rep THEN Flagged(out.files) ELSE {},
                    quiet     |-> rep /\ Quiet(out.files) # {},
                    malformed |-> rep /\ Malformed(out.files),
                    removed   |-> DOMAIN diagnosticCollection \ DOMAIN r.store # {}]
        /\ flaggedByLatest' =
              IF r.status # "resolved" THEN DOMAIN r.store
              ELSE IF p.filePath = NoFile THEN keys
              ELSE (flaggedByLatest \ {p.filePath}) \cup keys
        /\ UNCHANGED <<dockerVolumePath, started>>

Next ==
    \/ ActivateNoWorkspace
    \/ Activate
    \/ AnalyzeCommand
    \/ ConfigFileChanged
    \/ \E f \in SavedFiles, l \in LanguageIds : SaveTextDocument(f, l)
    \/ \E d \in DockerVolumePaths : ConfigurationChanged(d)
    \/ \E p \in Passes, result \in ExecResults : Complete(p, result)

Spec == Init /\ [][Next]_vars

-----------------------------------------------------------------------------
(* Vocabulary of the properties *)

\* Pass p completes in this step.
Completed(p) == BagIn(p, running) /\ running' = running (-) SetToBag({p})

\* While pass p ran, another pass completed and changed the entry of its file.
Overtaken(p) == p.check # Has(diagnosticCollection, p.filePath)

\* The store keys of the paths the completing report flags.
FlaggedKeys == { StoreKey(q, dockerVolumePath) : q \in last'.flagged }

\* The completing pass produced a report that processOutput can map.
Applied == last'.hasReport /\ ~last'.malformed

SameEntry(k) ==
    /\ k \in DOMAIN diagnosticCollection <=> k \in DOMAIN diagnosticCollection'
    /\ k \in DOMAIN diagnosticCollection =>
          diagnosticCollection'[k] = diagnosticCollection[k]

IsPrefix(pre, s) == Len(pre) <= Len(s) /\ SubSeq(s, 1, Len(pre)) = pre

\* The key as the specification describes it: a prefix rewrite, and the
\* identity when dockerVolumePath is empty or no prefix of the path.
PrefixKey(filePath, dvp) ==
    IF dvp # << >> /\ IsPrefix(dvp, filePath)
    THEN ws \o SubSeq(filePath, Len(dvp) + 1, Len(filePath))
    ELSE filePath

-----------------------------------------------------------------------------
(* Properties *)

\* C1: a path has an entry in the store exactly when the most recently
\* completed analysis covering it (a whole-project report, or a single-file
\* report for it or flagging it) reported at least one violation for it.
C1_StoreMatchesLatestReport == DOMAIN diagnosticCollection = flaggedByLatest

\* C2: a pass that fails (aborted subprocess, unparseable report, report
\* without files, malformed entries) leaves the store as it was, or holding
\* the complete result of the report; never cleared and not repopulated.
C2_FailedPassLeavesNoPartialUpdate ==
    [][\A p \in Passes :
          (Completed(p) /\ last'.status \in {"aborted", "rejected"}) =>
             \/ diagnosticCollection' = diagnosticCollection
             \/ /\ last'.flagged # {}
                /\ FlaggedKeys \subseteq DOMAIN diagnosticCollection'
                /\ p.filePath = NoFile =>
                      DOMAIN diagnosticCollection' = FlaggedKeys]_vars

\* C3: when the subprocess fails with stderr text and no stdout, or with an
\* error that is no tool failure, the pass ends before any report is parsed
\* and the store is what it was before the pass.
C3_AbortKeepsStore ==
    [][\A p \in Passes :
          (Completed(p) /\ last'.failure \in {"stderrOnly", "invocation"}) =>
             /\ diagnosticCollection' = diagnosticCollection
             /\ last'.status = "aborted"]_vars

C3_Witness ==
    /\ last.failure \in {"stderrOnly", "invocation"}
    /\ last.kind = "single"
    /\ DOMAIN diagnosticCollection # {}

\* C4: after a whole-project pass has applied its report the store holds
\* entries exactly for the files the report flags: entries of omitted files
\* are gone, and an empty files mapping leaves the store empty.
C4_ReplaceKeepsOnlyReported ==
    [][\A p \in Passes :
          (Completed(p) /\ p.filePath = NoFile /\ Applied) =>
             /\ DOMAIN diagnosticCollection' = FlaggedKeys
             /\ \A k \in DOMAIN diagnosticCollection :
                   k \notin FlaggedKeys => k \notin DOMAIN diagnosticCollection'
             /\ last'.flagged = {} => diagnosticCollection' = EmptyStore]_vars

C4_Witness ==
    /\ last.kind = "project"
    /\ last.hasReport /\ ~last.malformed
    /\ last.removed
    /\ DOMAIN diagnosticCollection # {}

\* C5: a single-file pass for F that was triggered while the store held an
\* entry for F, and whose report has no file with a violation, leaves the
\* store without an entry for F.
C5_NoFindingsDeletesEntry ==
    [][\A p \in Passes :
          (/\ Completed(p)
           /\ p.filePath # NoFile
           /\ p.check
           /\ Applied
           /\ last'.flagged = {}) =>
             p.filePath \notin DOMAIN diagnosticCollection']_vars

\* C6: when a single-file pass for F completes after a concurrent pass that
\* changed the entry of F while it ran, the store's state for F is the one
\* its own report determines.  Stated for reports that either list no file
\* or flag every file they list, F among them.
C6_LastCompletionWins ==
    [][\A p \in Passes :
          (/\ Completed(p)
           /\ p.filePath # NoFile
           /\ Overtaken(p)
           /\ Applied
           /\ ~last'.quiet
           /\ last'.flagged = {} \/ p.filePath \in FlaggedKeys) =>
             (p.filePath \in DOMAIN diagnosticCollection'
                <=> p.filePath \in FlaggedKeys)]_vars

\* C7: the store key of a reported path is the path with a leading
\* dockerVolumePath replaced by the workspace root, and the path itself when
\* dockerVolumePath is empty or does not begin the path.
C7_KeyIsPrefixRewrite ==
    [][\A p \in Passes :
          (Completed(p) /\ last'.status = "resolved") =>
             \A q \in last'.flagged :
                PrefixKey(q, dockerVolumePath) \in DOMAIN diagnosticCollection']_vars

\* C8 as stated: a single-file pass for F changes no entry but that of F.
C8_SingleFileTouchesOnlyItsFile ==
    [][\A p \in Passes :
          (Completed(p) /\ p.filePath # NoFile) =>
             \A k \in (DOMAIN diagnosticCollection \cup DOMAIN diagnosticCollection')
                        \ {p.filePath} : SameEntry(k)]_vars

\* C8 as amended: a single-file pass for F changes no entry but that of F and
\* those of the files its report lists with at least one violation.
C8_SingleFileTouchesOnlyReported ==
    [][\A p \in Passes :
          (Completed(p) /\ p.filePath # NoFile) =>
             \A k \in (DOMAIN diagnosticCollection \cup DOMAIN diagnosticCollection')
                        \ ({p.filePath} \cup FlaggedKeys) : SameEntry(k)]_vars

C8_Witness ==
    /\ last.kind = "single"
    /\ last.status = "resolved"
    /\ last.flagged # {}
    /\ \E k \in DOMAIN diagnosticCollection :
          /\ k # last.filePath
          /\ k \notin { StoreKey(q, dockerVolumePath) : q \in last.flagged }

\* C9: every entry of the store holds at least one diagnostic: a file entry
\* without messages field or with no message produces no store entry.
C9_EntriesNonEmpty ==
    \A k \in DOMAIN diagnosticCollection : Len(diagnosticCollection[k]) > 0

C9_Witness ==
    /\ last.status = "resolved"
    /\ last.quiet
    /\ last.flagged # {}
    /\ Cardinality(DOMAIN diagnosticCollection) = 1

\* C10: no pass but the activation pass starts, and no pass completes, before
\* the activation pass has ended; without workspace folder, or when the
\* activation pass throws, no trigger exists and no further pass starts.
C10_TriggersAfterActivation ==
    /\ pc \in {"start", "inactive"} =>
          started = 0 /\ diagnosticCollection = EmptyStore
    /\ pc = "activating" =>
          /\ started = 1
          /\ running = SetToBag({[filePath |-> NoFile, check |-> FALSE]})
          /\ last = NoLast
          /\ diagnosticCollection = EmptyStore
    /\ pc = "failed" => started = 1 /\ running = EmptyBag

C10_Witness ==
    /\ pc = "registered"
    /\ started = 2
    /\ BagCardinality(running) = 1

====
